---------------------------- MODULE Spec2Model ----------------------------
(***************************************************************************)
(* Model of the unscented Kalman filter of src/ukf.cpp (class UKF).        *)
(*                                                                         *)
(* The estimator is one object; ProcessMeasurement is its only operation.  *)
(* Vectors and matrices are functions indexed from 0 as in the source.     *)
(*                                                                         *)
(* Arithmetic.  A double is modelled by a value of one of four kinds:      *)
(*   "q"      an exactly known rational n/d (d > 0, lowest terms);         *)
(*   "fin"    a finite double whose value the model does not track (the    *)
(*            result of sqrt, sin, cos, atan2 at a point where the result  *)
(*            is irrational, and everything computed from such a result);  *)
(*   "nan"    IEEE-754 NaN: produced by 0/0, absorbing in every operation, *)
(*            and false in every comparison;                               *)
(*   "undef"  storage that was allocated and never written.                *)
(* Operations on "fin" operands are taken to stay finite and nonzero where *)
(* they are used as divisors: the model follows a subset of the runs of    *)
(* the program, exactly wherever every operand is rational or NaN.         *)
(***************************************************************************)
EXTENDS Integers, Sequences, FiniteSets, TLC

(***************************************************************************)
(* Bounds of the model.                                                    *)
(***************************************************************************)
MaxCalls == 3      \* ProcessMeasurement calls in one run
MaxTick  == 1      \* timestamps are 0 .. MaxTick seconds
MaxRaw   == 1      \* raw measurement components are 0 .. MaxRaw
MaxLen   == 3      \* raw measurement vectors have 2 .. MaxLen components
MaxAngle == 60     \* angle differences are -MaxAngle .. MaxAngle grid units
UnitsPerPi == 4    \* grid units in one half turn

(***************************************************************************)
(* Values.                                                                 *)
(***************************************************************************)
Abs(i) == IF i < 0 THEN -i ELSE i

RECURSIVE GCD(_, _)
GCD(a, b) == IF b = 0 THEN a ELSE GCD(b, a % b)

Q(n, d)  == LET g == GCD(Abs(n), d)
            IN  [k |-> "q", n |-> n \div g, d |-> d \div g]
Num(i)   == [k |-> "q", n |-> i, d |-> 1]
FIN      == [k |-> "fin", n |-> 0, d |-> 1]
NAN      == [k |-> "nan", n |-> 0, d |-> 1]
UNDEF    == [k |-> "undef", n |-> 0, d |-> 1]

IsQ(v)    == v.k = "q"
IsNaN(v)  == v.k = "nan"
IsZero(v) == v.k = "q" /\ v.n = 0

\* a + b
Add(a, b) == IF IsNaN(a) \/ IsNaN(b) THEN NAN
             ELSE IF IsQ(a) /\ IsQ(b) THEN Q(a.n * b.d + b.n * a.d, a.d * b.d)
             ELSE FIN
\* -a
Neg(a) == IF IsQ(a) THEN Q(-a.n, a.d) ELSE a
\* a - b
Sub(a, b) == Add(a, Neg(b))
\* a * b ; a finite value times zero is zero
Mul(a, b) == IF IsNaN(a) \/ IsNaN(b) THEN NAN
             ELSE IF IsZero(a) \/ IsZero(b) THEN Num(0)
             ELSE IF IsQ(a) /\ IsQ(b) THEN Q(a.n * b.n, a.d * b.d)
             ELSE FIN
\* a / b ; 0/0 is NaN.  x/0 with x # 0 is an infinity, which the model does
\* not separate from NaN (the program has no such division on tracked values).
Div(a, b) == IF IsNaN(a) \/ IsNaN(b) THEN NAN
             ELSE IF IsZero(b) THEN NAN
             ELSE IF IsZero(a) THEN Num(0)
             ELSE IF IsQ(a) /\ IsQ(b)
                  THEN IF b.n > 0 THEN Q(a.n * b.d, a.d * b.n)
                                  ELSE Q(-(a.n * b.d), a.d * (-b.n))
             ELSE FIN

RECURSIVE ISqrtIn(_, _, _)
\* the r in lo..hi with r * r = n, or -1 when there is none (bisection)
ISqrtIn(n, lo, hi) ==
  LET mid == (lo + hi) \div 2
  IN  IF lo > hi THEN -1
      ELSE IF mid * mid = n THEN mid
      ELSE IF mid * mid < n THEN ISqrtIn(n, mid + 1, hi)
      ELSE ISqrtIn(n, lo, mid - 1)
\* integer square root of a perfect square, -1 otherwise
ISqrt(n) == ISqrtIn(n, 0, IF n < 46340 THEN n ELSE 46340)

\* sqrt(a) ; sqrt of a negative number is NaN
Sqrt(a) == IF IsNaN(a) THEN NAN
           ELSE IF IsQ(a)
                THEN IF a.n < 0 THEN NAN
                     ELSE IF ISqrt(a.n) >= 0 /\ ISqrt(a.d) >= 0
                          THEN Q(ISqrt(a.n), ISqrt(a.d))
                     ELSE FIN
           ELSE FIN
\* sin(a), cos(a), atan2(y, x)
Sin(a) == IF IsNaN(a) THEN NAN ELSE IF IsZero(a) THEN Num(0) ELSE FIN
Cos(a) == IF IsNaN(a) THEN NAN ELSE IF IsZero(a) THEN Num(1) ELSE FIN
Atan2(y, x) == IF IsNaN(y) \/ IsNaN(x) THEN NAN
               ELSE IF IsZero(y) /\ IsQ(x) /\ x.n >= 0 THEN Num(0)
               ELSE FIN
\* fabs(a)
Fabs(a) == IF IsQ(a) THEN Q(Abs(a.n), a.d) ELSE a

\* a > b and a <= b as the hardware decides them: "T", "F", or "U" when an
\* operand is not tracked.  Every comparison with NaN is false.
Gt(a, b) == IF IsNaN(a) \/ IsNaN(b) THEN "F"
            ELSE IF IsQ(a) /\ IsQ(b)
                 THEN IF a.n * b.d > b.n * a.d THEN "T" ELSE "F"
            ELSE "U"
Le(a, b) == IF IsNaN(a) \/ IsNaN(b) THEN "F"
            ELSE IF IsQ(a) /\ IsQ(b)
                 THEN IF a.n * b.d <= b.n * a.d THEN "T" ELSE "F"
            ELSE "U"

\* the value of an expression whose branch condition is c
Branch(c, t, e) == IF c = "T" THEN t
                   ELSE IF c = "F" THEN e
                   ELSE IF t = e THEN t
                   ELSE IF IsNaN(t) /\ IsNaN(e) THEN NAN
                   ELSE FIN


(***************************************************************************)
(* Eigen vectors and matrices: functions from 0-based indices to values.   *)
(* A matrix is indexed M[row][col].                                        *)
(***************************************************************************)
\* The same vector or matrix with every component evaluated once (a function
\* expression is otherwise re-evaluated at each application).
Vec(v) == v @@ << >>
Mat(M) == Vec([i \in DOMAIN M |-> Vec(M[i])])

Rows(M) == Cardinality(DOMAIN M)
Size(v) == Cardinality(DOMAIN v)

RECURSIVE SumFrom(_, _, _, _)
\* acc + F[i] + ... + F[n-1], accumulated in index order; NaN absorbs the rest
SumFrom(F, i, n, acc) == IF i = n \/ IsNaN(acc) THEN acc
                         ELSE SumFrom(F, i + 1, n, Add(acc, F[i]))
\* F[0] + F[1] + ... + F[n-1], accumulated from zero
SumTo(F, n) == SumFrom(F, 0, n, Num(0))

Fill(r, c, v)   == Mat([i \in 0..(r - 1) |-> [j \in 0..(c - 1) |-> v]])
VFill(n, v)     == Vec([i \in 0..(n - 1) |-> v])
Identity(n)     == Mat([i \in 0..(n - 1) |->
                      [j \in 0..(n - 1) |-> IF i = j THEN Num(1) ELSE Num(0)]])
Diag(d)         == Mat([i \in DOMAIN d |->
                      [j \in DOMAIN d |-> IF i = j THEN d[i] ELSE Num(0)]])
Transpose(M)    == Mat([j \in DOMAIN M[0] |-> [i \in DOMAIN M |-> M[i][j]]])
MatAdd(A, B)    == Mat([i \in DOMAIN A |-> [j \in DOMAIN A[0] |->
                      Add(A[i][j], B[i][j])]])
MatSub(A, B)    == Mat([i \in DOMAIN A |-> [j \in DOMAIN A[0] |->
                      Sub(A[i][j], B[i][j])]])
MatMul(A, B)    == Mat([i \in DOMAIN A |-> [j \in DOMAIN B[0] |->
                      SumTo([k \in DOMAIN B |-> Mul(A[i][k], B[k][j])], Rows(B))]])
MatVec(A, v)    == Vec([i \in DOMAIN A |->
                      SumTo([k \in DOMAIN v |-> Mul(A[i][k], v[k])], Size(v))])
VecAdd(u, v)    == Vec([i \in DOMAIN u |-> Add(u[i], v[i])])
Col(M, c)       == Vec([i \in DOMAIN M |-> M[i][c]])

\* determinant and inverse of a 2x2 or 3x3 matrix (S.inverse())
Det(M) ==
  IF Rows(M) = 2
  THEN Sub(Mul(M[0][0], M[1][1]), Mul(M[0][1], M[1][0]))
  ELSE Add(Sub(Mul(M[0][0], Sub(Mul(M[1][1], M[2][2]), Mul(M[1][2], M[2][1]))),
               Mul(M[0][1], Sub(Mul(M[1][0], M[2][2]), Mul(M[1][2], M[2][0])))),
           Mul(M[0][2], Sub(Mul(M[1][0], M[2][1]), Mul(M[1][1], M[2][0]))))
\* cofactor of M at (i, j) for a 3x3 matrix
Cofactor3(M, i, j) ==
  LET r1 == (i + 1) % 3  r2 == (i + 2) % 3
      c1 == (j + 1) % 3  c2 == (j + 2) % 3
  IN  Sub(Mul(M[r1][c1], M[r2][c2]), Mul(M[r1][c2], M[r2][c1]))
Inverse(M) ==
  LET det == Det(M)
  IN  IF Rows(M) = 2
      THEN Mat([i \in 0..1 |-> [j \in 0..1 |->
              IF i = j THEN Div(M[1 - i][1 - j], det)
                       ELSE Div(Neg(M[i][j]), det)]])
      ELSE Mat([i \in 0..2 |-> [j \in 0..2 |-> Div(Cofactor3(M, j, i), det)]])
\* S is singular: it has no inverse (its determinant is zero or not a number)
Singular(M) == IsNaN(Det(M)) \/ IsZero(Det(M))

(***************************************************************************)
(* The estimator.                                                          *)
(***************************************************************************)
VARIABLES
  use_laser_,        \* fuse laser measurements
  use_radar_,        \* fuse radar measurements
  n_aug_,            \* augmented state dimension
  lambda_,           \* sigma point spreading factor
  weights_,          \* weights of the sigma points
  is_initialized_,   \* the first measurement has been processed
  time_us_,          \* timestamp of the last processed measurement
  x_,                \* state mean  (px, py, v, yaw, yawd)
  P_,                \* state covariance
  Xsig_pred_,        \* predicted sigma points
  calls,             \* number of ProcessMeasurement calls made so far
  meas,              \* the measurement of the last call
  ops,               \* the stages the last call ran, in order
  delta_t,           \* the elapsed time the last call gave to Prediction
  predicted,         \* x_ and P_ as the last Prediction left them
  degenerate,        \* the last call factorized a matrix that is not
                     \* positive definite or inverted a singular matrix
  aborted,           \* an Eigen assertion stopped the process
  angle_in,          \* an angle difference, in grid units
  angle_out          \* the same difference after angle normalization

vars == <<use_laser_, use_radar_, n_aug_, lambda_, weights_, is_initialized_,
          time_us_, x_, P_, Xsig_pred_, calls, meas, ops, delta_t,
          predicted, degenerate, aborted, angle_in, angle_out>>
ukf_vars == <<use_laser_, use_radar_, n_aug_, lambda_, weights_,
              is_initialized_, time_us_, x_, P_, Xsig_pred_, calls, meas, ops,
              delta_t, predicted, degenerate, aborted>>

n_x_ == 5
n_z_ == 3
std_a_      == Num(2)
std_yawdd_  == Num(2)
std_laspx_  == Q(15, 100)
std_laspy_  == Q(15, 100)
std_radr_   == Q(3, 10)
std_radphi_ == Q(3, 100)
std_radrd_  == Q(3, 10)
UsPerSec    == 1000000

\* Lidar state to measurement mapping matrix
Lidar_H_ == Mat([i \in 0..1 |-> [j \in 0..(n_x_ - 1) |->
               IF i = j THEN Num(1) ELSE Num(0)]])
\* Lidar measurement noise covariance matrix
Lidar_R_ == Diag([i \in 0..1 |->
               IF i = 0 THEN Mul(std_laspx_, std_laspx_)
                        ELSE Mul(std_laspy_, std_laspy_)])
\* Radar measurement noise covariance matrix
Radar_R_ == Diag([i \in 0..(n_z_ - 1) |->
               IF i = 0 THEN Mul(std_radr_, std_radr_)
               ELSE IF i = 1 THEN Mul(std_radphi_, std_radphi_)
               ELSE Mul(std_radrd_, std_radrd_)])

\* weights_ as the constructor fills it: 1/(2*(lambda_+n_aug_)) everywhere,
\* then lambda_/(lambda_+n_aug_) at index 0.  lambda_ is a double.
InitWeights_NoParentheses(lambda, n_aug) ==
  Vec([i \in 0..(2 * n_aug) |->
     IF i = 0 THEN Div(lambda, Add(lambda, Num(n_aug)))
              ELSE Div(Num(1), Add(Mul(Num(2), lambda), Num(n_aug)))])

InitWeights(lambda, n_aug) ==
  Vec([i \in 0..(2 * n_aug) |->
     IF i = 0 THEN Div(lambda, Add(lambda, Num(n_aug)))
              ELSE Div(Num(1), Mul(Num(2), Add(lambda, Num(n_aug))))])

(***************************************************************************)
(* Measurement records.  A well-formed record has 2 raw components for     *)
(* LASER and 3 for RADAR; raw_measurements_ is a VectorXd of any size.     *)
(***************************************************************************)
SensorTypes == {"LASER", "RADAR"}
RawValues   == 0..MaxRaw
RECURSIVE RawVectors(_)
RawVectors(n) == IF n = 0 THEN {<< >>}
                 ELSE {Append(v, c) : v \in RawVectors(n - 1), c \in RawValues}
Timestamps  == {k * UsPerSec : k \in 0..MaxTick}
Measurements ==
  [sensor_type_ : SensorTypes,
   raw_measurements_ : UNION {RawVectors(n) : n \in 2..MaxLen},
   timestamp_ : Timestamps]

WellFormed(m) ==
  Len(m.raw_measurements_) = (IF m.sensor_type_ = "LASER" THEN 2 ELSE 3)

\* What a raw vector of the wrong size yields where Eigen checks sizes: an
\* assertion failure ("abort") or, with assertions compiled out, a read of
\* the components present and, past the end of the buffer, of whatever lies
\* behind it: some finite double ("fin") or a NaN ("nan").
OutOfBounds(m) ==
  IF WellFormed(m) THEN {"none"}
  ELSE IF Len(m.raw_measurements_) >= 3 THEN {"abort", "none"}
  ELSE {"abort", "fin", "nan"}

\* raw_measurements_(i)
Raw(m, i, oob) == IF i < Len(m.raw_measurements_)
                  THEN Num(m.raw_measurements_[i + 1])
                  ELSE IF oob = "nan" THEN NAN ELSE FIN

(***************************************************************************)
(* Prediction                                                              *)
(***************************************************************************)
RECURSIVE LLTFrom(_, _, _)
\* Columns j .. n-1 of the Cholesky factor of A, given columns 0 .. j-1 in L.
\* A pivot x <= 0 stops the factorization (Eigen: NumericalIssue).
LLTFrom(A, j, L) ==
  LET n == Rows(A)
      x == Sub(A[j][j], SumTo([k \in 0..(n - 1) |-> Mul(L[j][k], L[j][k])], j))
      d == Sqrt(x)
  IN  IF j = n THEN [L |-> L, ok |-> TRUE]
      ELSE IF Le(x, Num(0)) = "T" THEN [L |-> L, ok |-> FALSE]
      ELSE LLTFrom(A, j + 1,
             Mat([i \in 0..(n - 1) |-> [c \in 0..(n - 1) |->
                IF c # j \/ i < j THEN L[i][c]
                ELSE IF i = j THEN d
                ELSE Div(Sub(A[i][j],
                             SumTo([k \in 0..(n - 1) |-> Mul(L[i][k], L[j][k])], j)),
                         d)]]))
\* A.llt().matrixL()
LLT(A) == LLTFrom(A, 0, Mat([i \in DOMAIN A |-> [c \in DOMAIN A |->
                           IF c <= i THEN A[i][c] ELSE Num(0)]]))
\* llt is no Cholesky factorization: it stopped at a pivot <= 0 (the matrix
\* is not positive definite), or a pivot is NaN
FactorizationFailed(llt) ==
  \/ ~llt.ok
  \/ \E i \in DOMAIN llt.L : IsNaN(llt.L[i][i])

\* the augmented covariance P_aug
AugmentedCovariance(P) ==
  Mat([i \in 0..(n_aug_ - 1) |-> [j \in 0..(n_aug_ - 1) |->
     IF i < 5 /\ j < 5 THEN P[i][j]
     ELSE IF i = 5 /\ j = 5 THEN Mul(std_a_, std_a_)
     ELSE IF i = 6 /\ j = 6 THEN Mul(std_yawdd_, std_yawdd_)
     ELSE Num(0)]])

\* Xsig_aug: n_aug_ rows, 2*n_aug_+1 columns
GenerateSigmaPoints(x, P) ==
  LET x_aug      == [i \in 0..(n_aug_ - 1) |-> IF i < 5 THEN x[i] ELSE Num(0)]
      llt        == LLT(AugmentedCovariance(P))
      P_aug_root == llt.L
      spread     == Sqrt(Add(lambda_, Num(n_aug_)))
  IN  [failed |-> FactorizationFailed(llt),
       Xsig_aug |->
         Mat([r \in 0..(n_aug_ - 1) |-> [c \in 0..(2 * n_aug_) |->
           IF c = 0 THEN x_aug[r]
           ELSE IF c <= n_aug_
                THEN Add(x_aug[r], Mul(spread, P_aug_root[r][c - 1]))
                ELSE Sub(x_aug[r], Mul(spread, P_aug_root[r][c - 1 - n_aug_]))]])]

\* one augmented sigma point through the CTRV process model
PredictSigmaPoint(p, dt) ==
  LET px == p[0]  py == p[1]  v == p[2]  yaw == p[3]  yawd == p[4]
      nu_a == p[5]  nu_yawdd == p[6]
      half == Q(1, 2)
      turning == Gt(Fabs(yawd), Q(1, 1000))
      px_pred == Branch(turning,
                   Add(px, Mul(Div(v, yawd),
                               Sub(Sin(Add(yaw, Mul(yawd, dt))), Sin(yaw)))),
                   Add(px, Mul(Mul(v, Cos(yaw)), dt)))
      py_pred == Branch(turning,
                   Add(py, Mul(Div(v, yawd),
                               Add(Mul(Num(-1), Cos(Add(yaw, Mul(yawd, dt)))),
                                   Cos(yaw)))),
                   Add(py, Mul(Mul(v, Sin(yaw)), dt)))
      v_pred    == v
      yaw_pred  == Add(yaw, Mul(yawd, dt))
      yawd_pred == yawd
      hdt2      == Mul(Mul(half, dt), dt)
  IN  Vec([r \in 0..(n_x_ - 1) |->
         IF r = 0 THEN Add(px_pred, Mul(Mul(hdt2, Cos(yaw)), nu_a))
         ELSE IF r = 1 THEN Add(py_pred, Mul(Mul(hdt2, Sin(yaw)), nu_a))
         ELSE IF r = 2 THEN Add(v_pred, Mul(dt, nu_a))
         ELSE IF r = 3 THEN Add(yaw_pred, Mul(hdt2, nu_yawdd))
         ELSE Add(yawd_pred, Mul(dt, nu_yawdd))])

\* Xsig_pred_: n_x_ rows, 2*n_aug_+1 columns
SigmaPointsPrediction(Xsig_aug, dt) ==
  Transpose([c \in 0..(2 * n_aug_) |-> PredictSigmaPoint(Col(Xsig_aug, c), dt)])

\* while (a > M_PI) a -= 2.*M_PI;  while (a < -M_PI) a += 2.*M_PI;
\* on a value: NaN fails both loop tests and stays; a rational in [-3, 3] is
\* inside (-M_PI, M_PI) and stays; any other result is not tracked.
AngleNormalization(a) ==
  IF IsNaN(a) THEN a
  ELSE IF IsQ(a) /\ Abs(a.n) <= 3 * a.d THEN a
  ELSE FIN

\* x_diff = Xsig_pred_.col(i) - x, with x_diff(3) normalized
StateDifference(Xsig_pred, x, i) ==
  Vec([r \in 0..(n_x_ - 1) |->
     IF r = 3 THEN AngleNormalization(Sub(Xsig_pred[r][i], x[r]))
              ELSE Sub(Xsig_pred[r][i], x[r])])

\* the predicted mean and covariance
PredictMeanAndCovariance(Xsig_pred) ==
  LET nsig == 2 * n_aug_ + 1
      x == Vec([r \in 0..(n_x_ - 1) |->
              SumTo([i \in 0..(nsig - 1) |-> Mul(weights_[i], Xsig_pred[r][i])],
                    nsig)])
      x_diff == Vec([i \in 0..(nsig - 1) |-> StateDifference(Xsig_pred, x, i)])
      P == Mat([r \in 0..(n_x_ - 1) |-> [c \in 0..(n_x_ - 1) |->
              SumTo([i \in 0..(nsig - 1) |->
                       Mul(Mul(weights_[i], x_diff[i][r]), x_diff[i][c])],
                    nsig)]])
  IN  [x |-> x, P |-> P]

\* Prediction(delta_t) on an estimator state s
Prediction(s, dt) ==
  LET sig       == GenerateSigmaPoints(s.x, s.P)
      Xsig_pred == SigmaPointsPrediction(sig.Xsig_aug, dt)
      mc        == PredictMeanAndCovariance(Xsig_pred)
  IN  [s EXCEPT !.x = mc.x, !.P = mc.P, !.Xsig = Xsig_pred,
                !.degenerate = s.degenerate \/ sig.failed,
                !.ops = Append(s.ops, "Prediction")]

(***************************************************************************)
(* Measurement updates.  Each update is split in two: the part that reads  *)
(* the estimator only (predicted measurement, S, K and the new P_) and the *)
(* part that reads the raw measurement (residual and the new x_).          *)
(***************************************************************************)
\* meas_package.raw_measurements_ - z_pred : the difference has the size of
\* z_pred; a raw vector of another size trips Eigen's size assertion.
Residual(m, z_pred, oob) ==
  Vec([i \in DOMAIN z_pred |-> Sub(Raw(m, i, oob), z_pred[i])])
SizeMismatch(m, n) == Len(m.raw_measurements_) # n

\* z_pred, S, K and the updated covariance of UpdateLidar
LidarGain(s) ==
  LET z_pred == MatVec(Lidar_H_, s.x)
      Ht     == Transpose(Lidar_H_)
      S      == MatAdd(MatMul(MatMul(Lidar_H_, s.P), Ht), Lidar_R_)
      Si     == Inverse(S)
      PHt    == MatMul(s.P, Ht)
      K      == MatMul(PHt, Si)
      I      == Identity(n_x_)
  IN  [z_pred |-> z_pred, singular |-> Singular(S), K |-> K,
       P |-> MatMul(MatSub(I, MatMul(K, Lidar_H_)), s.P)]

UpdateLidar(s, m, oob, g) ==
  LET y == Residual(m, g.z_pred, oob)
  IN  IF SizeMismatch(m, 2) /\ oob = "abort"
      THEN [s EXCEPT !.aborted = TRUE, !.ops = Append(s.ops, "UpdateLidar")]
      ELSE [s EXCEPT !.x = VecAdd(s.x, MatVec(g.K, y)),
                     !.P = g.P,
                     !.degenerate = s.degenerate \/ g.singular,
                     !.ops = Append(s.ops, "UpdateLidar")]

\* one predicted sigma point in measurement space (r, phi, r_dot)
RadarMeasurementModel(p) ==
  LET p_x == p[0]  p_y == p[1]  v == p[2]  yaw == p[3]
      v1  == Mul(Cos(yaw), v)
      v2  == Mul(Sin(yaw), v)
      r   == Sqrt(Add(Mul(p_x, p_x), Mul(p_y, p_y)))
  IN  Vec([j \in 0..(n_z_ - 1) |->
         IF j = 0 THEN r
         ELSE IF j = 1 THEN Atan2(p_y, p_x)
         ELSE Div(Add(Mul(p_x, v1), Mul(p_y, v2)), r)])

\* z_diff = z - z_pred with z_diff(1) normalized
MeasurementDifference(z, z_pred) ==
  Vec([j \in DOMAIN z_pred |->
     IF j = 1 THEN AngleNormalization(Sub(z[j], z_pred[j]))
              ELSE Sub(z[j], z_pred[j])])

\* z_pred, S, K and the updated covariance of UpdateRadar
RadarGain(s) ==
  LET nsig   == 2 * n_aug_ + 1
      Zsig   == Transpose([i \in 0..(nsig - 1) |->
                   RadarMeasurementModel(Col(s.Xsig, i))])
      z_pred == Vec([j \in 0..(n_z_ - 1) |->
                   SumTo([i \in 0..(nsig - 1) |-> Mul(weights_[i], Zsig[j][i])],
                         nsig)])
      zd     == Vec([i \in 0..(nsig - 1) |->
                   MeasurementDifference(Col(Zsig, i), z_pred)])
      xd     == Vec([i \in 0..(nsig - 1) |-> StateDifference(s.Xsig, s.x, i)])
      S      == MatAdd([a \in 0..(n_z_ - 1) |-> [b \in 0..(n_z_ - 1) |->
                          SumTo([i \in 0..(nsig - 1) |->
                                   Mul(Mul(weights_[i], zd[i][a]), zd[i][b])],
                                nsig)]],
                       Radar_R_)
      Tc     == Mat([a \in 0..(n_x_ - 1) |-> [b \in 0..(n_z_ - 1) |->
                   SumTo([i \in 0..(nsig - 1) |->
                            Mul(Mul(weights_[i], xd[i][a]), zd[i][b])],
                         nsig)]])
      K      == MatMul(Tc, Inverse(S))
  IN  [z_pred |-> z_pred, singular |-> Singular(S), K |-> K,
       P |-> MatSub(s.P, MatMul(MatMul(K, S), Transpose(K)))]

UpdateRadar(s, m, oob, g) ==
  LET z_diff == MeasurementDifference(
                   Vec([j \in 0..(n_z_ - 1) |-> Raw(m, j, oob)]), g.z_pred)
  IN  IF SizeMismatch(m, n_z_) /\ oob = "abort"
      THEN [s EXCEPT !.aborted = TRUE, !.ops = Append(s.ops, "UpdateRadar")]
      ELSE [s EXCEPT !.x = VecAdd(s.x, MatVec(g.K, z_diff)),
                     !.P = g.P,
                     !.degenerate = s.degenerate \/ g.singular,
                     !.ops = Append(s.ops, "UpdateRadar")]

(***************************************************************************)
(* ProcessMeasurement                                                      *)
(***************************************************************************)
\* x_ as the first measurement sets it
InitialMean(m, oob) ==
  LET rho == Raw(m, 0, oob)
      phi == Raw(m, 1, oob)
  IN  IF m.sensor_type_ = "LASER"
      THEN Vec([i \in 0..(n_x_ - 1) |->
              IF i = 0 THEN Raw(m, 0, oob)
              ELSE IF i = 1 THEN Raw(m, 1, oob)
              ELSE Num(0)])
      ELSE Vec([i \in 0..(n_x_ - 1) |->
              IF i = 0 THEN Mul(rho, Cos(phi))
              ELSE IF i = 1 THEN Mul(rho, Sin(phi))
              ELSE Num(0)])

InitialCovariance_NotSquared(m) ==
  IF m.sensor_type_ = "LASER"
  THEN Diag([i \in 0..(n_x_ - 1) |->
               IF i = 0 THEN std_laspx_
               ELSE IF i = 1 THEN std_laspy_
               ELSE Num(1)])
  ELSE Diag([i \in 0..(n_x_ - 1) |->
               IF i < 2 THEN Add(std_radr_, std_radphi_) ELSE Num(1)])

\* P_ as the first measurement sets it
InitialCovariance(m) ==
  IF m.sensor_type_ = "LASER"
  THEN Diag([i \in 0..(n_x_ - 1) |->
               IF i = 0 THEN Mul(std_laspx_, std_laspx_)
               ELSE IF i = 1 THEN Mul(std_laspy_, std_laspy_)
               ELSE Num(1)])
  ELSE Diag([i \in 0..(n_x_ - 1) |->
               IF i < 2
               THEN Mul(Add(std_radr_, std_radphi_), Add(std_radr_, std_radphi_))
               ELSE Num(1)])

\* the else-branch of ProcessMeasurement: the first measurement
Initialize(s, m, oob) ==
  [s EXCEPT !.init = TRUE, !.time = m.timestamp_,
            !.x = InitialMean(m, oob), !.P = InitialCovariance(m),
            !.ops = Append(s.ops, "Initialize")]

Corrector_NoRadarBranch(m) ==
  IF m.sensor_type_ = "LASER" /\ use_laser_ THEN "UpdateLidar" ELSE "none"

Corrector_IgnoresFlags(m) ==
  IF m.sensor_type_ = "LASER" THEN "UpdateLidar" ELSE "UpdateRadar"

\* the corrector ProcessMeasurement selects for m
Corrector(m) ==
  IF m.sensor_type_ = "LASER" /\ use_laser_ THEN "UpdateLidar"
  ELSE IF m.sensor_type_ = "RADAR" /\ use_radar_ THEN "UpdateRadar"
  ELSE "none"

\* delta_t = (meas_package.timestamp_ - time_us_) / 1000000.0
ElapsedTime(s, timestamp) == Div(Num(timestamp - s.time), Num(UsPerSec))

\* the estimator as ProcessMeasurement finds it
Estimator ==
  [x |-> x_, P |-> P_, Xsig |-> Xsig_pred_, time |-> time_us_,
   init |-> is_initialized_, dt |-> UNDEF, ops |-> << >>,
   degenerate |-> FALSE, aborted |-> FALSE]

\* The part of ProcessMeasurement that reads only the timestamp of the
\* measurement: delta_t, Prediction, time_us_, and what each corrector
\* computes before it reads the raw measurement.
Predicted(timestamp) ==
  LET s    == Estimator
      pred == [Prediction(s, ElapsedTime(s, timestamp))
                 EXCEPT !.dt = ElapsedTime(s, timestamp), !.time = timestamp]
  IN  IF is_initialized_
      THEN [pred |-> pred, lidar |-> LidarGain(pred), radar |-> RadarGain(pred)]
      ELSE [pred |-> s, lidar |-> << >>, radar |-> << >>]

\* the estimator after ProcessMeasurement(m), given pre = Predicted(m.timestamp_)
Processed(m, oob, pre) ==
  IF is_initialized_
  THEN IF Corrector(m) = "UpdateLidar" THEN UpdateLidar(pre.pred, m, oob, pre.lidar)
       ELSE IF Corrector(m) = "UpdateRadar"
            THEN UpdateRadar(pre.pred, m, oob, pre.radar)
       ELSE pre.pred
  ELSE Initialize(Estimator, m, oob)

ProcessMeasurement(m, oob, pre) ==
  /\ calls < MaxCalls
  /\ ~aborted
  /\ \E s \in {Processed(m, oob, pre)} :
       /\ x_' = s.x
       /\ P_' = s.P
       /\ Xsig_pred_' = s.Xsig
       /\ time_us_' = s.time
       /\ is_initialized_' = s.init
       /\ delta_t' = s.dt
       /\ predicted' = IF is_initialized_ THEN [x |-> pre.pred.x, P |-> pre.pred.P]
                                         ELSE predicted
       /\ ops' = s.ops
       /\ degenerate' = s.degenerate
       /\ aborted' = s.aborted
  /\ calls' = calls + 1
  /\ meas' = m
  /\ UNCHANGED <<use_laser_, use_radar_, n_aug_, lambda_, weights_,
                 angle_in, angle_out>>

\* The state the constructor leaves.  use_laser_ and use_radar_ are the two
\* configuration switches of the constructor; x_, P_, Xsig_pred_ are
\* allocated and not written; time_us_ is not written.
Init ==
  /\ use_laser_ \in BOOLEAN
  /\ use_radar_ \in BOOLEAN
  /\ n_aug_ = 7
  /\ lambda_ = Num(3 - 7)
  /\ weights_ = InitWeights(Num(3 - 7), 7)
  /\ is_initialized_ = FALSE
  /\ time_us_ = 0
  /\ x_ = VFill(n_x_, UNDEF)
  /\ P_ = Fill(n_x_, n_x_, UNDEF)
  /\ Xsig_pred_ = Fill(n_x_, 2 * 7 + 1, UNDEF)
  /\ calls = 0
  /\ meas = [sensor_type_ |-> "NONE", raw_measurements_ |-> << >>,
             timestamp_ |-> 0]
  /\ ops = << >>
  /\ delta_t = UNDEF
  /\ predicted = [x |-> VFill(n_x_, UNDEF), P |-> Fill(n_x_, n_x_, UNDEF)]
  /\ degenerate = FALSE
  /\ aborted = FALSE
  /\ angle_in = 0
  /\ angle_out = 0

Next ==
  \E t \in Timestamps : \E pre \in {Predicted(t)} :
    \E m \in {mm \in Measurements : mm.timestamp_ = t} :
      \E oob \in OutOfBounds(m) : ProcessMeasurement(m, oob, pre)

Spec == Init /\ [][Next]_vars

(***************************************************************************)
(* Angle normalization as a function of the angle difference.  Angles are  *)
(* multiples of pi/UnitsPerPi, so that -pi and +pi are on the grid.        *)
(***************************************************************************)
M_PI == UnitsPerPi
Angles == (-MaxAngle)..MaxAngle

RECURSIVE WhileAbove(_)
\* while (a > M_PI) a -= 2.*M_PI;
WhileAbove(a) == IF a > M_PI THEN WhileAbove(a - 2 * M_PI) ELSE a
RECURSIVE WhileBelow(_)
\* while (a < -M_PI) a += 2.*M_PI;
WhileBelow(a) == IF a < -M_PI THEN WhileBelow(a + 2 * M_PI) ELSE a
NormalizeAngle(a) == WhileBelow(WhileAbove(a))

NormalizeDifference(a) ==
  /\ angle_in' = a
  /\ angle_out' = NormalizeAngle(a)
  /\ UNCHANGED ukf_vars

NextAngle == \E a \in Angles : NormalizeDifference(a)

SpecAngle == Init /\ [][NextAngle]_vars

(***************************************************************************)
(* Properties                                                              *)
(***************************************************************************)
\* the last call ran the stage
Ran(stage) == \E i \in 1..Len(ops) : ops[i] = stage
\* every component has been written
Written(M) == \A i \in DOMAIN M : \A j \in DOMAIN M[i] : M[i][j].k # "undef"
VWritten(v) == \A i \in DOMAIN v : v[i].k # "undef"
\* some component is NaN
HasNaN(M)  == \E i \in DOMAIN M : \E j \in DOMAIN M[i] : IsNaN(M[i][j])
VHasNaN(v) == \E i \in DOMAIN v : IsNaN(v[i])
\* the raw component i (from 0) of the last measurement
LastRaw(i) == Num(meas.raw_measurements_[i + 1])
\* the last measurement is of a sensor type whose fusion flag is false
LastDisabled == \/ meas.sensor_type_ = "LASER" /\ ~use_laser_
                \/ meas.sensor_type_ = "RADAR" /\ ~use_radar_

C1_FirstCall ==
  calls = 1 => /\ ops = <<"Initialize">>
               /\ is_initialized_
               /\ time_us_ = meas.timestamp_
               /\ VWritten(x_) /\ Written(P_)
C1_LaterCalls ==
  calls > 1 =>
    /\ meas.sensor_type_ = "LASER" /\ use_laser_
         => ops = <<"Prediction", "UpdateLidar">>
    /\ meas.sensor_type_ = "RADAR" /\ use_radar_
         => ops = <<"Prediction", "UpdateRadar">>
    /\ ~Ran("Initialize")
\* C1: the first ProcessMeasurement call runs only the initializer (it sets
\* is_initialized_, stores the timestamp in time_us_ and writes x_ and P_);
\* every later call with an enabled sensor type runs Prediction once and then
\* the one corrector of that sensor type, in that order, and never the
\* initializer; is_initialized_ never returns to false.
C1_ControlFlow ==
  /\ [](C1_FirstCall /\ C1_LaterCalls)
  /\ [][is_initialized_ => is_initialized_']_vars
C1_Witness ==
  calls > 1 /\ is_initialized_ /\ ops = <<"Prediction", "UpdateRadar">>

\* C2: a measurement of a sensor type whose fusion flag is false gets no
\* corrector after initialization (x_ and P_ are those Prediction left, no
\* measurement update is applied); as the first measurement it initializes
\* the estimator as it does when the flag is true.
C2_DisabledSensor ==
  LastDisabled =>
    IF calls > 1
    THEN /\ ops = <<"Prediction">>
         /\ x_ = predicted.x
         /\ P_ = predicted.P
    ELSE /\ ops = <<"Initialize">>
         /\ is_initialized_
         /\ time_us_ = meas.timestamp_
         /\ x_ = [i \in 0..4 |->
                    IF i > 1 THEN Num(0)
                    ELSE IF meas.sensor_type_ = "LASER" THEN LastRaw(i)
                    ELSE IF i = 0 THEN Mul(LastRaw(0), Cos(LastRaw(1)))
                    ELSE Mul(LastRaw(0), Sin(LastRaw(1)))]
         /\ P_ = [i \in 0..4 |-> [j \in 0..4 |->
                    IF i # j THEN Num(0)
                    ELSE IF i > 1 THEN Num(1)
                    ELSE IF meas.sensor_type_ = "LASER" THEN Q(225, 10000)
                    ELSE Q(1089, 10000)]]
C2_Witness ==
  /\ calls > 1 /\ meas.sensor_type_ = "RADAR" /\ ~use_radar_
  /\ ops = <<"Prediction">> /\ x_ = predicted.x

\* C3: Prediction is never run with an elapsed time delta_t <= 0: a
\* measurement whose timestamp is not later than time_us_ is rejected or its
\* elapsed time is clamped to a positive minimum.
C3_PositiveElapsedTime ==
  Ran("Prediction") => Gt(delta_t, Num(0)) = "T"

\* C4: when the Cholesky factorization of P_aug fails in Prediction or S is
\* singular in an update, x_ and P_ are not overwritten by that call, and no
\* call leaves a NaN in x_ or P_ for the next call to run on.
C4_DegeneracyNotPropagated ==
  /\ [][degenerate' => x_' = x_ /\ P_' = P_]_vars
  /\ [](is_initialized_ => ~VHasNaN(x_) /\ ~HasNaN(P_))

\* C5: a record whose raw vector has the wrong length for its sensor type is
\* rejected: ProcessMeasurement leaves x_, P_, time_us_ and is_initialized_
\* unchanged for it.
C5_MalformedRejected ==
  [][calls' = calls + 1 /\ ~WellFormed(meas')
       => UNCHANGED <<x_, P_, time_us_, is_initialized_>>]_vars

\* P is symmetric: no entry is NaN and tracked mirror entries are equal
Symmetric(P) ==
  \A i \in DOMAIN P : \A j \in DOMAIN P :
    /\ ~IsNaN(P[i][j])
    /\ IsQ(P[i][j]) /\ IsQ(P[j][i]) => P[i][j] = P[j][i]
\* a necessary condition of positive semi-definiteness: no diagonal entry is
\* NaN or negative
NonNegativeDiagonal(P) ==
  \A i \in DOMAIN P : Gt(Num(0), P[i][i]) # "T" /\ ~IsNaN(P[i][i])
\* C6: once initialized, P_ is symmetric and positive semi-definite in every
\* reachable state.
C6_CovarianceSymmetricPSD ==
  is_initialized_ => Symmetric(P_) /\ NonNegativeDiagonal(P_)

\* C7: weights_ holds 15 values that sum to 1, lambda_/(lambda_+n_aug_) first
\* and 1/(2*(lambda_+n_aug_)) fourteen times, with lambda_ = 3 - n_aug_ and
\* n_aug_ = 7, in every reachable state.
C7_Weights ==
  /\ n_aug_ = 7
  /\ lambda_ = Num(3 - n_aug_)
  /\ DOMAIN weights_ = 0..14
  /\ weights_[0] = Q(-4, 3)
  /\ \A i \in 1..14 : weights_[i] = Q(1, 6)
  /\ SumTo(weights_, 15) = Num(1)
C7_Witness ==
  calls > 1 /\ Ran("Prediction") /\ SumTo(weights_, 15) = Num(1)

\* C8: a first LASER measurement (a, b) leaves the mean (a, b, 0, 0, 0) and
\* the covariance diag(0.0225, 0.0225, 1, 1, 1).
C8_LaserInitialization ==
  calls = 1 /\ meas.sensor_type_ = "LASER" =>
    /\ x_ = [i \in 0..4 |-> IF i < 2 THEN LastRaw(i) ELSE Num(0)]
    /\ P_ = [i \in 0..4 |-> [j \in 0..4 |->
               IF i # j THEN Num(0)
               ELSE IF i < 2 THEN Q(225, 10000) ELSE Num(1)]]
C8_Witness ==
  /\ calls = 1 /\ meas.sensor_type_ = "LASER"
  /\ meas.raw_measurements_ = <<1, 0>>
  /\ x_[0] = Num(1) /\ x_[1] = Num(0) /\ P_[1][1] = Q(9, 400)

\* C9: a normalized angle difference lies in (-pi, pi] and differs from the
\* difference by a multiple of 2*pi.
C9_HalfOpenInterval ==
  /\ -M_PI < angle_out /\ angle_out <= M_PI
  /\ (angle_out - angle_in) % (2 * M_PI) = 0

\* C10: when UpdateRadar runs, every predicted sigma point has
\* p_x*p_x + p_y*p_y > 0, so that r_dot is defined.
C10_NoDivisionByZero ==
  Ran("UpdateRadar") =>
    \A c \in 0..14 :
      Gt(Add(Mul(Xsig_pred_[0][c], Xsig_pred_[0][c]),
             Mul(Xsig_pred_[1][c], Xsig_pred_[1][c])), Num(0)) # "F"

=============================================================================
